---- MODULE Spec2Model ----
(***************************************************************************)
(* Model of backend/database.py (SQLite repositories StudentDB and NoteDB, *)
(* init_database, get_connection) and of the request models and startup    *)
(* hook of backend/main.py.                                                *)
(*                                                                         *)
(* The database file is shared state.  Callers are worker processes that   *)
(* run init_database at startup and then call repository operations; one   *)
(* step of the model is one SQL statement together with the connection     *)
(* handling around it, so that statements of different callers interleave  *)
(* exactly where separate connections let them.                            *)
(*                                                                         *)
(* Text columns that are searched (title, content) are sequences of        *)
(* characters; a non-ASCII character is written by its code point          *)
(* ("u6b22").  The timestamp columns are not modelled.                     *)
(***************************************************************************)
EXTENDS Integers, Sequences, FiniteSets, TLC

VARIABLES
    tables,      \* TRUE once CREATE TABLE has run on the database file
    students,    \* students table: id -> row data
    notes,       \* notes table: id -> row data
    studentSeq,  \* sqlite_sequence entry of students (AUTOINCREMENT)
    noteSeq,     \* sqlite_sequence entry of notes
    repo,        \* the repository the callers of this run use
    pc,          \* per caller: the statement it executes next
    loc,         \* per caller: locals of the running operation
    conns,       \* per caller: connections it holds open
    ev,          \* the step just taken: operation, arguments, returned value
    tog,         \* history: the running sequence of uninterrupted toggle_pin calls
    delS,        \* history: per student id, how often delete returned True
    delN,        \* history: per note id, how often delete returned True
    seedings     \* history: per table, how often sample rows were inserted

vars == <<tables, students, notes, studentSeq, noteSeq, repo, pc, loc, conns, ev,
          tog, delS, delN, seedings>>

----------------------------------------------------------------------------
(* Bounds of the model *)

\* ids up to which callers create and address students / notes
MaxStudentId == 7
MaxNoteId == 5
\* how often one table may receive the sample rows
MaxSeedings == 2

Procs == {"w1", "w2"}

----------------------------------------------------------------------------
(* Sample data: insert_sample_students, insert_sample_notes *)

SampleStudents == <<
    [student_id |-> "2024001", name |-> "u5f20u4e09", gender |-> "u7537", age |-> 20, major |-> "u8ba1u7b97u673au79d1u5b66", score |-> 95],
    [student_id |-> "2024002", name |-> "u674eu56db", gender |-> "u5973", age |-> 19, major |-> "u8f6fu4ef6u5de5u7a0b", score |-> 88],
    [student_id |-> "2024003", name |-> "u738bu4e94", gender |-> "u7537", age |-> 21, major |-> "u4ebau5de5u667au80fd", score |-> 92],
    [student_id |-> "2024004", name |-> "u8d75u516d", gender |-> "u5973", age |-> 20, major |-> "u6570u636eu79d1u5b66", score |-> 85],
    [student_id |-> "2024005", name |-> "u94b1u4e03", gender |-> "u7537", age |-> 22, major |-> "u4fe1u606fu5b89u5168", score |-> 78],
    [student_id |-> "2024006", name |-> "u5b59u516b", gender |-> "u5973", age |-> 19, major |-> "u7269u8054u7f51", score |-> 90] >>

SampleNotes == <<
    [title |-> <<"u6b22", "u8fce", "u4f7f", "u7528", "u4fbf", "u7b7e">>,
     content |-> <<"u8fd9", "u662f", "u4e00", "u4e2a", "u4fbf", "u7b7e", "u793a", "u4f8b", "uff01">>,
     color |-> "yellow", is_pinned |-> 1],
    [title |-> <<"u5f85", "u529e", "u4e8b", "u9879">>,
     content |-> <<"1", ".", " ", "u5b8c", "u6210", "u4f5c", "u4e1a", "\n", "2", ".", " ", "u590d", "u4e60", "u8003", "u8bd5">>,
     color |-> "blue", is_pinned |-> 0],
    [title |-> <<"u91cd", "u8981", "u63d0", "u9192">>,
     content |-> <<"u4e0b", "u5468", "u4e00", "u6709", "u73ed", "u4f1a", "uff01">>,
     color |-> "red", is_pinned |-> 1],
    [title |-> <<"u5b66", "u4e60", "u8ba1", "u5212">>,
     content |-> <<"u672c", "u5468", "u5b66", "u4e60", "V", "u", "e", ".", "j", "s", "u548c", "P", "y", "t", "h", "o", "n">>,
     color |-> "green", is_pinned |-> 0] >>

----------------------------------------------------------------------------
(* Inputs of the callers *)

\* request bodies accepted by StudentCreate / StudentUpdate
StudentInputs == {
    [student_id |-> "2024099", name |-> "x", gender |-> "u7537", age |-> 20, major |-> "m", score |-> 100],
    [student_id |-> "2024099", name |-> "y", gender |-> "u5973", age |-> 16, major |-> "m", score |-> 0] }

\* request bodies accepted by NoteCreate / NoteUpdate: is_pinned is any int
NoteInputs == {
    [title |-> <<"P">>, content |-> <<>>, color |-> "yellow", is_pinned |-> 0],
    [title |-> <<"p", "_">>, content |-> <<"%">>, color |-> "blue", is_pinned |-> 2] }

\* ids callers pass to get_by_id, update and toggle_pin: the last row of the
\* first seeding and the rows after it
StudentIdArgs == Len(SampleStudents)..MaxStudentId
NoteIdArgs == Len(SampleNotes)..MaxNoteId

\* ids a single caller passes to NoteDB.delete: every note, so that the
\* table can be emptied
NoteDeleteArgs == 1..MaxNoteId

\* search keywords: empty, a letter in both cases, the LIKE wildcards, a
\* keyword of two characters, a character no note holds
Keywords == {<<>>, <<"P">>, <<"p">>, <<"%">>, <<"_">>, <<"p", "_">>, <<"z">>}

\* where a step's store access can fail
Failures == {"none", "connect", "statement"}

----------------------------------------------------------------------------
(* SQLite behaviour the statements rely on *)

SetMax(S) == CHOOSE m \in S : \A x \in S : x <= m

\* INTEGER PRIMARY KEY without AUTOINCREMENT: one more than the largest
\* rowid now in the table
NextRowidReusing(tbl, seq) == SetMax({0} \cup DOMAIN tbl) + 1

\* INTEGER PRIMARY KEY AUTOINCREMENT: one more than the largest rowid the
\* table ever held
NextRowid(tbl, seq) == SetMax({seq} \cup DOMAIN tbl) + 1

InsertRow(tbl, id, data) ==
    [i \in DOMAIN tbl \cup {id} |-> IF i = id THEN data ELSE tbl[i]]

\* UPDATE ... WHERE id=? that also inserts a missing row
UpdateOrInsertRow(tbl, id, data) == InsertRow(tbl, id, data)

\* UPDATE ... SET <all columns> WHERE id=?
UpdateRow(tbl, id, data) ==
    IF id \in DOMAIN tbl THEN [tbl EXCEPT ![id] = data] ELSE tbl

\* cursor.rowcount of UPDATE / DELETE ... WHERE id=?
RowCount(tbl, id) == IF id \in DOMAIN tbl THEN 1 ELSE 0

\* DELETE FROM ... WHERE id=?
DeleteRow(tbl, id) == [i \in DOMAIN tbl \ {id} |-> tbl[i]]

\* dict(row) of SELECT *
Row(tbl, id) == [id |-> id] @@ tbl[id]

\* SELECT * ... WHERE id=? ; fetchone: None is the empty sequence
SelectById(tbl, id) == IF id \in DOMAIN tbl THEN <<Row(tbl, id)>> ELSE <<>>

\* executemany(INSERT ...): the rows one after the other, in one transaction
RECURSIVE InsertMany(_, _, _)
InsertMany(tbl, seq, rows) ==
    IF rows = <<>> THEN [tbl |-> tbl, seq |-> seq]
    ELSE LET id == NextRowid(tbl, seq)
         IN  InsertMany(InsertRow(tbl, id, Head(rows)), id, Tail(rows))

\* ORDER BY id DESC
RECURSIVE OrderStudents(_, _)
OrderStudents(tbl, ids) ==
    IF ids = {} THEN <<>>
    ELSE LET first == SetMax(ids)
         IN  <<Row(tbl, first)>> \o OrderStudents(tbl, ids \ {first})

\* ORDER BY is_pinned DESC, id DESC
NoteBefore(tbl, i, j) ==
    \/ tbl[i].is_pinned > tbl[j].is_pinned
    \/ tbl[i].is_pinned = tbl[j].is_pinned /\ i > j

RECURSIVE OrderNotes(_, _)
OrderNotes(tbl, ids) ==
    IF ids = {} THEN <<>>
    ELSE LET first == CHOOSE i \in ids : \A j \in ids \ {i} : NoteBefore(tbl, i, j)
         IN  <<Row(tbl, first)>> \o OrderNotes(tbl, ids \ {first})

\* LIKE compares ASCII letters without regard to case
Upper == <<"A", "B", "C", "D", "E", "F", "G", "H", "I", "J", "K", "L", "M",
           "N", "O", "P", "Q", "R", "S", "T", "U", "V", "W", "X", "Y", "Z">>
Lower == <<"a", "b", "c", "d", "e", "f", "g", "h", "i", "j", "k", "l", "m",
           "n", "o", "p", "q", "r", "s", "t", "u", "v", "w", "x", "y", "z">>

Fold(c) ==
    IF \E k \in 1..Len(Upper) : Upper[k] = c
    THEN Lower[CHOOSE k \in 1..Len(Upper) : Upper[k] = c]
    ELSE c

\* text LIKE pat: % matches any run of characters, _ any one character
RECURSIVE Like(_, _)
Like(pat, text) ==
    IF pat = <<>> THEN text = <<>>
    ELSE IF Head(pat) = "%"
         THEN \/ Like(Tail(pat), text)
              \/ text # <<>> /\ Like(pat, Tail(text))
         ELSE /\ text # <<>>
              /\ Head(pat) = "_" \/ Fold(Head(pat)) = Fold(Head(text))
              /\ Like(Tail(pat), Tail(text))

\* kw = f"%{keyword}%"
SearchPattern(keyword) == <<"%">> \o keyword \o <<"%">>

\* SELECT * FROM notes WHERE title LIKE ? OR content LIKE ? ORDER BY ...
SearchNotes(tbl, keyword) ==
    LET kw == SearchPattern(keyword)
    IN  OrderNotes(tbl, {i \in DOMAIN tbl :
                            Like(kw, tbl[i].title) \/ Like(kw, tbl[i].content)})

----------------------------------------------------------------------------
(* get_connection *)

\* conn = sqlite3.connect(DB_PATH)
Connect(n) == n + 1

\* a context manager that closes only when the block ends without exception
ReleaseOnSuccess(n, raised) == IF raised THEN n ELSE n - 1

\* finally: if conn: conn.close()
Release(n, raised) == n - 1

\* one whole `with get_connection() as conn:` block run inside a step:
\* a failed connect leaves conn None and nothing to close
WithConnection(n, err) ==
    IF err = "connect" THEN n ELSE Release(Connect(n), err # "none")

\* the error a statement ends with: the injected failure, or "no such table"
ErrorOf(fail) ==
    IF fail = "connect" THEN "connect"
    ELSE IF fail = "statement" \/ ~tables THEN "statement"
    ELSE "none"

----------------------------------------------------------------------------
(* Records of the model *)

NoLoc == [id |-> 0, data |-> <<>>, n |-> 0, old |-> 0]

NoEv == [op |-> "none", stmt |-> "none", id |-> 0, data |-> <<>>, kw |-> <<>>,
         err |-> "none", done |-> FALSE, rows |-> <<>>, ok |-> FALSE]

NoTog == [p |-> "none", id |-> 0, before |-> 0, n |-> 0]

\* a step of operation op that does not return yet
Ev(op, stmt, id, data, kw) ==
    [NoEv EXCEPT !.op = op, !.stmt = stmt, !.id = id, !.data = data, !.kw = kw]

\* the step in which the operation returns rows (None, a row or a list) / a bool
Returned(e, rows, ok) == [e EXCEPT !.done = TRUE, !.rows = rows, !.ok = ok]

\* the step in which an operation raises: nothing is returned; the event
\* keeps where the error arose (connect or statement, in which block)
Raised(block, err) ==
    [NoEv EXCEPT !.op = "raised", !.stmt = block, !.done = TRUE, !.err = err]

AllIds == 1..SetMax({MaxStudentId, MaxNoteId,
                     MaxSeedings * Len(SampleStudents) + 1,
                     MaxSeedings * Len(SampleNotes) + 1})

----------------------------------------------------------------------------
(* Initial states: the database file as the starting process finds it *)

\* no database file yet; every caller is about to run startup
Init ==
    /\ tables = FALSE
    /\ students = <<>> /\ notes = <<>>
    /\ studentSeq = 0 /\ noteSeq = 0
    /\ repo \in {"StudentDB", "NoteDB"}
    /\ pc = [p \in Procs |-> "boot"]
    /\ loc = [p \in Procs |-> NoLoc]
    /\ conns = [p \in Procs |-> 0]
    /\ ev = NoEv
    /\ tog = NoTog
    /\ delS = [i \in AllIds |-> 0] /\ delN = [i \in AllIds |-> 0]
    /\ seedings = [students |-> 0, notes |-> 0]

\* the callers have run startup on a fresh file: init_database has created
\* the tables and inserted the sample rows
InitStarted ==
    /\ tables = TRUE
    /\ LET s == InsertMany(<<>>, 0, SampleStudents)
           n == InsertMany(<<>>, 0, SampleNotes)
       IN  /\ students = s.tbl /\ studentSeq = s.seq
           /\ notes = n.tbl /\ noteSeq = n.seq
    /\ repo \in {"StudentDB", "NoteDB"}
    /\ pc = [p \in Procs |-> "idle"]
    /\ loc = [p \in Procs |-> NoLoc]
    /\ conns = [p \in Procs |-> 0]
    /\ ev = NoEv
    /\ tog = NoTog
    /\ delS = [i \in AllIds |-> 0] /\ delN = [i \in AllIds |-> 0]
    /\ seedings = [students |-> 1, notes |-> 1]

----------------------------------------------------------------------------
(* Frames *)

\* caller p goes to statement label with locals l, holding c connections
Goto(p, label, l, c, e) ==
    /\ pc' = [pc EXCEPT ![p] = label]
    /\ loc' = [loc EXCEPT ![p] = l]
    /\ conns' = [conns EXCEPT ![p] = c]
    /\ ev' = e

\* caller p's operation ends (returns or raises), holding c connections
Finish(p, c, e) == Goto(p, "idle", NoLoc, c, e)

StoreUnchanged == UNCHANGED <<repo, tables, students, notes, studentSeq, noteSeq, repo>>
HistoryUnchanged == UNCHANGED <<delS, delN, seedings>>
NoToggleRun == tog' = NoTog

----------------------------------------------------------------------------
(* init_database, called by startup *)

\* seed whatever the count
NeedsSeedAlways(count) == TRUE

\* if cursor.fetchone()[0] == 0
NeedsSeed(count) == count = 0

InitEv(stmt) == Ev("init_database", stmt, 0, <<>>, <<>>)

\* except Exception as e: print(...) ; the with block has released conn
InitAbort(p, stmt, c) ==
    /\ Finish(p, c, Returned(InitEv(stmt), <<>>, FALSE))
    /\ StoreUnchanged /\ HistoryUnchanged /\ NoToggleRun

\* with get_connection(); CREATE TABLE IF NOT EXISTS students, notes; commit
InitCreateTables(p) ==
    /\ pc[p] = "boot"
    /\ \E fail \in Failures :
         IF fail = "connect" THEN InitAbort(p, "CREATE TABLE", conns[p])
         ELSE IF fail = "statement"
         THEN InitAbort(p, "CREATE TABLE", Release(Connect(conns[p]), TRUE))
         ELSE /\ tables' = TRUE
              /\ Goto(p, "init_count_students", NoLoc, Connect(conns[p]), InitEv("CREATE TABLE"))
              /\ UNCHANGED <<students, notes, studentSeq, noteSeq, repo>>
              /\ HistoryUnchanged /\ NoToggleRun

\* SELECT COUNT(*) FROM students
InitCountStudents(p) ==
    /\ pc[p] = "init_count_students"
    /\ \E fail \in {"none", "statement"} :
         IF ErrorOf(fail) # "none" THEN InitAbort(p, "COUNT", Release(conns[p], TRUE))
         ELSE LET count == Cardinality(DOMAIN students)
              IN  /\ Goto(p, IF NeedsSeed(count) THEN "init_seed_students"
                                                 ELSE "init_count_notes",
                          [NoLoc EXCEPT !.n = count], conns[p], InitEv("COUNT"))
                  /\ StoreUnchanged /\ HistoryUnchanged /\ NoToggleRun

\* insert_sample_students(conn)
InitSeedStudents(p) ==
    /\ pc[p] = "init_seed_students"
    /\ seedings.students < MaxSeedings
    /\ \E fail \in {"none", "statement"} :
         IF ErrorOf(fail) # "none" THEN InitAbort(p, "INSERT", Release(conns[p], TRUE))
         ELSE LET after == InsertMany(students, studentSeq, SampleStudents)
              IN  /\ students' = after.tbl
                  /\ studentSeq' = after.seq
                  /\ seedings' = [seedings EXCEPT !.students = @ + 1]
                  /\ Goto(p, "init_count_notes", loc[p], conns[p], InitEv("INSERT"))
                  /\ UNCHANGED <<repo, tables, notes, noteSeq, delS, delN>>
                  /\ NoToggleRun

\* SELECT COUNT(*) FROM notes ; without seeding the function returns here
InitCountNotes(p) ==
    /\ pc[p] = "init_count_notes"
    /\ \E fail \in {"none", "statement"} :
         IF ErrorOf(fail) # "none" THEN InitAbort(p, "COUNT", Release(conns[p], TRUE))
         ELSE LET count == Cardinality(DOMAIN notes)
              IN  /\ IF NeedsSeed(count)
                     THEN Goto(p, "init_seed_notes", [NoLoc EXCEPT !.n = count],
                               conns[p], InitEv("COUNT"))
                     ELSE Finish(p, Release(conns[p], FALSE),
                                 Returned(InitEv("COUNT"), <<>>, TRUE))
                  /\ StoreUnchanged /\ HistoryUnchanged /\ NoToggleRun

\* insert_sample_notes(conn) ; print ; the with block ends
InitSeedNotes(p) ==
    /\ pc[p] = "init_seed_notes"
    /\ seedings.notes < MaxSeedings
    /\ \E fail \in {"none", "statement"} :
         IF ErrorOf(fail) # "none" THEN InitAbort(p, "INSERT", Release(conns[p], TRUE))
         ELSE LET after == InsertMany(notes, noteSeq, SampleNotes)
              IN  /\ notes' = after.tbl
                  /\ noteSeq' = after.seq
                  /\ seedings' = [seedings EXCEPT !.notes = @ + 1]
                  /\ Finish(p, Release(conns[p], FALSE),
                            Returned(InitEv("INSERT"), <<>>, TRUE))
                  /\ UNCHANGED <<repo, tables, students, studentSeq, delS, delN>>
                  /\ NoToggleRun

\* the process is started again (uvicorn reload) and runs startup again
Restart(p) ==
    /\ pc[p] = "idle"
    /\ Goto(p, "boot", NoLoc, 0, Ev("restart", "none", 0, <<>>, <<>>))
    /\ StoreUnchanged /\ HistoryUnchanged /\ NoToggleRun

----------------------------------------------------------------------------
(* StudentDB *)

\* a single-statement operation raises: the with block releases, nothing changes
Raise(p, e, err) ==
    /\ Finish(p, WithConnection(conns[p], err), Raised("with", err))
    /\ StoreUnchanged /\ HistoryUnchanged /\ NoToggleRun

\* the nested get_by_id of create / update raises: its own block releases,
\* then the outer block of the operation
RaiseNested(p, e, err) ==
    /\ Finish(p, Release(WithConnection(conns[p], err), TRUE),
              Raised("nested with", err))
    /\ StoreUnchanged /\ HistoryUnchanged /\ NoToggleRun

\* the nested get_by_id returns and the outer block ends
ReturnNested(p, e, rows) ==
    /\ Finish(p, Release(WithConnection(conns[p], "none"), FALSE),
              Returned(e, rows, rows # <<>>))
    /\ StoreUnchanged /\ HistoryUnchanged /\ NoToggleRun

StudentDB_get_all(p) ==
    /\ pc[p] = "idle"
    /\ \E fail \in Failures :
         LET e == Ev("StudentDB.get_all", "SELECT", 0, <<>>, <<>>)
             err == ErrorOf(fail)
         IN  IF err # "none" THEN Raise(p, e, err)
             ELSE /\ Finish(p, WithConnection(conns[p], err),
                            Returned(e, OrderStudents(students, DOMAIN students), TRUE))
                  /\ StoreUnchanged /\ HistoryUnchanged /\ NoToggleRun

StudentDB_get_by_id(p, student_id) ==
    /\ pc[p] = "idle"
    /\ \E fail \in Failures :
         LET e == Ev("StudentDB.get_by_id", "SELECT", student_id, <<>>, <<>>)
             err == ErrorOf(fail)
             row == SelectById(students, student_id)
         IN  IF err # "none" THEN Raise(p, e, err)
             ELSE /\ Finish(p, WithConnection(conns[p], err),
                            Returned(e, row, row # <<>>))
                  /\ StoreUnchanged /\ HistoryUnchanged /\ NoToggleRun

\* create: INSERT INTO students ... ; commit
StudentDB_create(p, data) ==
    /\ pc[p] = "idle"
    /\ studentSeq >= Len(SampleStudents)
    /\ NextRowid(students, studentSeq) <= MaxStudentId
    /\ \E fail \in Failures :
         LET e == Ev("StudentDB.create", "INSERT", 0, <<data>>, <<>>)
             err == ErrorOf(fail)
             lastrowid == NextRowid(students, studentSeq)
         IN  IF err # "none" THEN Raise(p, e, err)
             ELSE /\ students' = InsertRow(students, lastrowid, data)
                  /\ studentSeq' = lastrowid
                  /\ Goto(p, "student_create_read",
                          [NoLoc EXCEPT !.id = lastrowid, !.data = <<data>>],
                          Connect(conns[p]), [e EXCEPT !.id = lastrowid])
                  /\ UNCHANGED <<repo, tables, notes, noteSeq>>
                  /\ HistoryUnchanged /\ NoToggleRun

\* create: return StudentDB.get_by_id(cursor.lastrowid)
StudentDB_create_read(p) ==
    /\ pc[p] = "student_create_read"
    /\ \E fail \in Failures :
         LET e == Ev("StudentDB.create", "SELECT", loc[p].id, loc[p].data, <<>>)
             err == ErrorOf(fail)
         IN  IF err # "none" THEN RaiseNested(p, e, err)
             ELSE ReturnNested(p, e, SelectById(students, loc[p].id))

\* update: UPDATE students SET ... WHERE id=? ; commit ;
\* with rowcount 0 the operation returns None here
StudentDB_update(p, student_id, data) ==
    /\ pc[p] = "idle"
    /\ \E fail \in Failures :
         LET e == Ev("StudentDB.update", "UPDATE", student_id, <<data>>, <<>>)
             err == ErrorOf(fail)
             rowcount == RowCount(students, student_id)
         IN  IF err # "none" THEN Raise(p, e, err)
             ELSE /\ students' = UpdateRow(students, student_id, data)
                  /\ IF rowcount > 0
                     THEN Goto(p, "student_update_read",
                               [NoLoc EXCEPT !.id = student_id, !.n = rowcount],
                               Connect(conns[p]), e)
                     ELSE Finish(p, WithConnection(conns[p], err),
                                 Returned(e, <<>>, FALSE))
                  /\ UNCHANGED <<repo, tables, notes, studentSeq, noteSeq>>
                  /\ HistoryUnchanged /\ NoToggleRun

\* update: return StudentDB.get_by_id(student_id)
StudentDB_update_read(p) ==
    /\ pc[p] = "student_update_read"
    /\ \E fail \in Failures :
         LET e == Ev("StudentDB.update", "SELECT", loc[p].id, loc[p].data, <<>>)
             err == ErrorOf(fail)
         IN  IF err # "none" THEN RaiseNested(p, e, err)
             ELSE ReturnNested(p, e, SelectById(students, loc[p].id))

\* delete: DELETE FROM students WHERE id=? ; commit ; return rowcount > 0
StudentDB_delete(p, student_id) ==
    /\ pc[p] = "idle"
    /\ \E fail \in Failures :
         LET e == Ev("StudentDB.delete", "DELETE", student_id, <<>>, <<>>)
             err == ErrorOf(fail)
             rowcount == RowCount(students, student_id)
         IN  IF err # "none" THEN Raise(p, e, err)
             ELSE /\ students' = DeleteRow(students, student_id)
                  /\ delS' = [delS EXCEPT ![student_id] = @ + rowcount]
                  /\ Finish(p, WithConnection(conns[p], err),
                            Returned(e, <<>>, rowcount > 0))
                  /\ UNCHANGED <<repo, tables, notes, studentSeq, noteSeq, delN, seedings>>
                  /\ NoToggleRun

----------------------------------------------------------------------------
(* NoteDB *)

NoteDB_get_all(p) ==
    /\ pc[p] = "idle"
    /\ \E fail \in Failures :
         LET e == Ev("NoteDB.get_all", "SELECT", 0, <<>>, <<>>)
             err == ErrorOf(fail)
         IN  IF err # "none" THEN Raise(p, e, err)
             ELSE /\ Finish(p, WithConnection(conns[p], err),
                            Returned(e, OrderNotes(notes, DOMAIN notes), TRUE))
                  /\ StoreUnchanged /\ HistoryUnchanged /\ NoToggleRun

NoteDB_get_by_id(p, note_id) ==
    /\ pc[p] = "idle"
    /\ \E fail \in Failures :
         LET e == Ev("NoteDB.get_by_id", "SELECT", note_id, <<>>, <<>>)
             err == ErrorOf(fail)
             row == SelectById(notes, note_id)
         IN  IF err # "none" THEN Raise(p, e, err)
             ELSE /\ Finish(p, WithConnection(conns[p], err),
                            Returned(e, row, row # <<>>))
                  /\ StoreUnchanged /\ HistoryUnchanged /\ NoToggleRun

\* create: INSERT INTO notes ... ; commit.  note.dict() carries every field,
\* so the data.get defaults are not used
NoteDB_create(p, data) ==
    /\ pc[p] = "idle"
    /\ noteSeq >= Len(SampleNotes)
    /\ NextRowid(notes, noteSeq) <= MaxNoteId
    /\ \E fail \in Failures :
         LET e == Ev("NoteDB.create", "INSERT", 0, <<data>>, <<>>)
             err == ErrorOf(fail)
             lastrowid == NextRowid(notes, noteSeq)
         IN  IF err # "none" THEN Raise(p, e, err)
             ELSE /\ notes' = InsertRow(notes, lastrowid, data)
                  /\ noteSeq' = lastrowid
                  /\ Goto(p, "note_create_read",
                          [NoLoc EXCEPT !.id = lastrowid, !.data = <<data>>],
                          Connect(conns[p]), [e EXCEPT !.id = lastrowid])
                  /\ UNCHANGED <<repo, tables, students, studentSeq>>
                  /\ HistoryUnchanged /\ NoToggleRun

\* create: return NoteDB.get_by_id(cursor.lastrowid)
NoteDB_create_read(p) ==
    /\ pc[p] = "note_create_read"
    /\ \E fail \in Failures :
         LET e == Ev("NoteDB.create", "SELECT", loc[p].id, loc[p].data, <<>>)
             err == ErrorOf(fail)
         IN  IF err # "none" THEN RaiseNested(p, e, err)
             ELSE ReturnNested(p, e, SelectById(notes, loc[p].id))

\* update: UPDATE notes SET title, content, color, is_pinned WHERE id=? ; commit
NoteDB_update(p, note_id, data) ==
    /\ pc[p] = "idle"
    /\ \E fail \in Failures :
         LET e == Ev("NoteDB.update", "UPDATE", note_id, <<data>>, <<>>)
             err == ErrorOf(fail)
             rowcount == RowCount(notes, note_id)
         IN  IF err # "none" THEN Raise(p, e, err)
             ELSE /\ notes' = UpdateRow(notes, note_id, data)
                  /\ IF rowcount > 0
                     THEN Goto(p, "note_update_read",
                               [NoLoc EXCEPT !.id = note_id, !.n = rowcount],
                               Connect(conns[p]), e)
                     ELSE Finish(p, WithConnection(conns[p], err),
                                 Returned(e, <<>>, FALSE))
                  /\ UNCHANGED <<repo, tables, students, studentSeq, noteSeq>>
                  /\ HistoryUnchanged /\ NoToggleRun

\* update: return NoteDB.get_by_id(note_id)
NoteDB_update_read(p) ==
    /\ pc[p] = "note_update_read"
    /\ \E fail \in Failures :
         LET e == Ev("NoteDB.update", "SELECT", loc[p].id, loc[p].data, <<>>)
             err == ErrorOf(fail)
         IN  IF err # "none" THEN RaiseNested(p, e, err)
             ELSE ReturnNested(p, e, SelectById(notes, loc[p].id))

\* delete: DELETE FROM notes WHERE id=? ; commit ; return rowcount > 0
NoteDB_delete(p, note_id) ==
    /\ pc[p] = "idle"
    /\ \E fail \in Failures :
         LET e == Ev("NoteDB.delete", "DELETE", note_id, <<>>, <<>>)
             err == ErrorOf(fail)
             rowcount == RowCount(notes, note_id)
         IN  IF err # "none" THEN Raise(p, e, err)
             ELSE /\ notes' = DeleteRow(notes, note_id)
                  /\ delN' = [delN EXCEPT ![note_id] = @ + rowcount]
                  /\ Finish(p, WithConnection(conns[p], err),
                            Returned(e, <<>>, rowcount > 0))
                  /\ UNCHANGED <<repo, tables, students, studentSeq, noteSeq, delS, seedings>>
                  /\ NoToggleRun

NoteDB_search(p, keyword) ==
    /\ pc[p] = "idle"
    /\ \E fail \in Failures :
         LET e == Ev("NoteDB.search", "SELECT", 0, <<>>, keyword)
             err == ErrorOf(fail)
         IN  IF err # "none" THEN Raise(p, e, err)
             ELSE /\ Finish(p, WithConnection(conns[p], err),
                            Returned(e, SearchNotes(notes, keyword), TRUE))
                  /\ StoreUnchanged /\ HistoryUnchanged /\ NoToggleRun

----------------------------------------------------------------------------
(* NoteDB.toggle_pin: get_by_id, UPDATE, get_by_id, each on its own connection *)

\* new_pin = 0 if note['is_pinned'] else 1
NewPin(is_pinned) == IF is_pinned # 0 THEN 0 ELSE 1

\* a single statement flipping the stored value: SET is_pinned = NOT is_pinned
PinFlippedInPlace(new_pin, stored) == NewPin(stored)

\* UPDATE notes SET is_pinned=? WHERE id=? with (new_pin, note_id):
\* the value written is the one computed from the earlier read
PinToWrite(new_pin, stored) == new_pin

ToggleEv(stmt, note_id) == Ev("NoteDB.toggle_pin", stmt, note_id, <<>>, <<>>)

\* note = NoteDB.get_by_id(note_id) ; without a note the operation returns None
NoteDB_toggle_pin(p, note_id) ==
    /\ pc[p] = "idle"
    /\ \E fail \in Failures :
         LET e == ToggleEv("SELECT", note_id)
             err == ErrorOf(fail)
             note == SelectById(notes, note_id)
         IN  IF err # "none" THEN Raise(p, e, err)
             ELSE /\ IF note # <<>>
                     THEN /\ Goto(p, "toggle_write",
                                  [NoLoc EXCEPT !.id = note_id,
                                                !.old = note[1].is_pinned,
                                                !.n = NewPin(note[1].is_pinned)],
                                  WithConnection(conns[p], err), e)
                          /\ tog' = IF tog.n = 1 /\ tog.id = note_id /\ tog.p = "none"
                                    THEN [tog EXCEPT !.p = p]
                                    ELSE [p |-> p, id |-> note_id,
                                          before |-> note[1].is_pinned, n |-> 0]
                     ELSE /\ Finish(p, WithConnection(conns[p], err),
                                    Returned(e, <<>>, FALSE))
                          /\ NoToggleRun
                  /\ StoreUnchanged /\ HistoryUnchanged

\* with get_connection(): UPDATE notes SET is_pinned=? WHERE id=? ; commit
NoteDB_toggle_pin_write(p) ==
    /\ pc[p] = "toggle_write"
    /\ \E fail \in Failures :
         LET e == ToggleEv("UPDATE", loc[p].id)
             err == ErrorOf(fail)
             id == loc[p].id
         IN  IF err # "none" THEN Raise(p, e, err)
             ELSE /\ notes' = IF id \in DOMAIN notes
                              THEN [notes EXCEPT ![id].is_pinned =
                                        PinToWrite(loc[p].n, notes[id].is_pinned)]
                              ELSE notes
                  /\ Goto(p, "toggle_read", loc[p], WithConnection(conns[p], err), e)
                  /\ tog' = IF tog.p = p THEN tog ELSE NoTog
                  /\ UNCHANGED <<repo, tables, students, studentSeq, noteSeq>>
                  /\ HistoryUnchanged

\* return NoteDB.get_by_id(note_id)
NoteDB_toggle_pin_read(p) ==
    /\ pc[p] = "toggle_read"
    /\ \E fail \in Failures :
         LET e == ToggleEv("SELECT", loc[p].id)
             err == ErrorOf(fail)
             row == SelectById(notes, loc[p].id)
         IN  IF err # "none" THEN Raise(p, e, err)
             ELSE /\ Finish(p, WithConnection(conns[p], err),
                            Returned(e, row, row # <<>>))
                  /\ tog' = IF tog.p = p
                            THEN [tog EXCEPT !.n = @ + 1, !.p = "none"]
                            ELSE NoTog
                  /\ StoreUnchanged /\ HistoryUnchanged

----------------------------------------------------------------------------
(* The system *)

\* startup: init_database ; a restart runs it again
Startup(p) ==
    \/ InitCreateTables(p)
    \/ InitCountStudents(p)
    \/ InitSeedStudents(p)
    \/ InitCountNotes(p)
    \/ InitSeedNotes(p)
    \/ Restart(p)

\* the operations that write, statement by statement
Writes(p, noteDeleteArgs) ==
    \/ repo = "StudentDB" /\ \E data \in StudentInputs : StudentDB_create(p, data)
    \/ StudentDB_create_read(p)
    \/ repo = "StudentDB" /\ \E id \in StudentIdArgs, data \in StudentInputs :
                                StudentDB_update(p, id, data)
    \/ StudentDB_update_read(p)
    \/ repo = "StudentDB" /\ \E id \in StudentIdArgs : StudentDB_delete(p, id)
    \/ repo = "NoteDB" /\ \E data \in NoteInputs : NoteDB_create(p, data)
    \/ NoteDB_create_read(p)
    \/ repo = "NoteDB" /\ \E id \in NoteIdArgs, data \in NoteInputs :
                             NoteDB_update(p, id, data)
    \/ NoteDB_update_read(p)
    \/ repo = "NoteDB" /\ \E id \in noteDeleteArgs : NoteDB_delete(p, id)
    \/ repo = "NoteDB" /\ \E id \in NoteIdArgs : NoteDB_toggle_pin(p, id)
    \/ NoteDB_toggle_pin_write(p)
    \/ NoteDB_toggle_pin_read(p)

\* the operations that are one SELECT
Reads(p) ==
    \/ repo = "StudentDB" /\ StudentDB_get_all(p)
    \/ repo = "StudentDB" /\ \E id \in StudentIdArgs : StudentDB_get_by_id(p, id)
    \/ repo = "NoteDB" /\ NoteDB_get_all(p)
    \/ repo = "NoteDB" /\ \E id \in NoteIdArgs : NoteDB_get_by_id(p, id)
    \/ repo = "NoteDB" /\ \E keyword \in Keywords : NoteDB_search(p, keyword)

\* one caller: every operation in sequence
Next == Startup("w1") \/ Writes("w1", NoteDeleteArgs) \/ Reads("w1")

Spec == Init /\ [][Next]_vars

\* two callers, started, whose statements interleave.  An operation that is
\* one SELECT changes nothing and has no step to interleave with, and startup
\* runs before a caller serves requests: both are left to Spec
NextConcurrent == \E p \in Procs : Writes(p, NoteIdArgs)

SpecConcurrent == InitStarted /\ [][NextConcurrent]_vars

----------------------------------------------------------------------------
(* Properties *)

Pinned(row) == row.is_pinned # 0

\* keyword occurs in text as a literal substring
Contains(text, keyword) ==
    \E k \in 0..(Len(text) - Len(keyword)) :
        SubSeq(text, k + 1, k + Len(keyword)) = keyword

RowIds(rows) == {rows[k].id : k \in 1..Len(rows)}

\* C1: two NoteDB.toggle_pin calls on one existing note, one after the other
\* with no other operation in between, leave is_pinned at the value it had
\* before the first call, whatever value the note was created or updated with.
C1_ToggleTwiceRestores ==
    tog.n = 2 =>
        /\ tog.id \in DOMAIN notes
        /\ notes[tog.id].is_pinned = tog.before

\* C2: every stored note has is_pinned 0 or 1, after any sequence of create,
\* update, toggle_pin, delete and init_database with accepted inputs.
C2_IsPinnedIsZeroOrOne ==
    \A i \in DOMAIN notes : notes[i].is_pinned \in {0, 1}

\* C3: for each id of either table, delete returns True at most once, a row
\* whose delete returned True is gone, and no later create or seeding is
\* assigned that id again.
C3_DeleteTrueOnceIdNeverReused ==
    /\ \A i \in AllIds : delS[i] <= 1 /\ (delS[i] = 1 => i \notin DOMAIN students)
    /\ \A i \in AllIds : delN[i] <= 1 /\ (delN[i] = 1 => i \notin DOMAIN notes)

\* a second delete of a deleted note returned False after a later create
\* had been given a new id
C3_Witness ==
    /\ ev.op = "NoteDB.delete" /\ ev.done /\ ~ev.ok
    /\ delN[ev.id] = 1
    /\ \E i \in DOMAIN notes : i > ev.id /\ i > Len(SampleNotes)

\* C4: the UPDATE of StudentDB.update / NoteDB.update on an id that matches
\* no row makes the operation return None in that step and changes neither
\* table: no row inserted, every row as it was.
C4_UpdateOfMissingIdReturnsNoneAndChangesNothing ==
    [][/\ ( /\ ev'.op = "StudentDB.update" /\ ev'.stmt = "UPDATE"
            /\ ev'.id \notin DOMAIN students )
          => /\ ev'.done /\ ev'.rows = <<>>
             /\ students' = students /\ notes' = notes
       /\ ( /\ ev'.op = "NoteDB.update" /\ ev'.stmt = "UPDATE"
            /\ ev'.id \notin DOMAIN notes )
          => /\ ev'.done /\ ev'.rows = <<>>
             /\ students' = students /\ notes' = notes
      ]_vars

\* NoteDB.update has returned None for an id that is not in the non-empty table
C4_Witness ==
    /\ ev.op = "NoteDB.update" /\ ev.stmt = "UPDATE" /\ ev.done
    /\ ev.rows = <<>>
    /\ ev.id \notin DOMAIN notes
    /\ DOMAIN notes # {}

\* C5: NoteDB.get_all returns every stored note exactly once, every pinned
\* note (is_pinned non-zero) before every unpinned one, and within the pinned
\* and within the unpinned notes strictly descending by id.
C5_GetAllPinnedFirstThenIdDescending ==
    (ev.op = "NoteDB.get_all" /\ ev.done) =>
        /\ Len(ev.rows) = Cardinality(DOMAIN notes)
        /\ RowIds(ev.rows) = DOMAIN notes
        /\ \A a, b \in 1..Len(ev.rows) :
             a < b =>
               /\ Pinned(ev.rows[a]) \/ ~Pinned(ev.rows[b])
               /\ Pinned(ev.rows[a]) = Pinned(ev.rows[b])
                     => ev.rows[a].id > ev.rows[b].id

\* C6: NoteDB.search(keyword) returns exactly the notes whose title or content
\* contains keyword as a literal substring, for every keyword, the empty one
\* and those holding % or _ included.
C6_SearchReturnsLiteralSubstringMatches ==
    (ev.op = "NoteDB.search" /\ ev.done) =>
        /\ RowIds(ev.rows) =
              {i \in DOMAIN notes : \/ Contains(notes[i].title, ev.kw)
                                    \/ Contains(notes[i].content, ev.kw)}
        /\ Len(ev.rows) = Cardinality(RowIds(ev.rows))

\* C7 as stated: each table receives the sample rows at most once, whatever
\* deletes and later init_database calls follow the first one.
C7_SeededAtMostOnce ==
    seedings.students <= 1 /\ seedings.notes <= 1

\* C7 as amended: init_database inserts the sample rows into a table only in
\* a call whose SELECT COUNT(*) on that table returned 0, and a step of
\* init_database that does not insert them leaves both tables as they were.
C7_SeedsOnlyATableCountedEmpty ==
    [][/\ seedings'.students # seedings.students
            => \E p \in Procs : /\ pc[p] = "init_seed_students"
                                /\ pc'[p] # pc[p]
                                /\ loc[p].n = 0
       /\ seedings'.notes # seedings.notes
            => \E p \in Procs : /\ pc[p] = "init_seed_notes"
                                /\ pc'[p] # pc[p]
                                /\ loc[p].n = 0
       /\ (ev'.op = "init_database" /\ seedings' = seedings)
            => students' = students /\ notes' = notes
      ]_vars

\* a later init_database has inserted the sample notes a second time, the
\* table having been emptied by deletes
C7_Witness ==
    /\ ev.op = "init_database" /\ ev.done /\ ev.ok
    /\ seedings.notes = 2
    /\ DOMAIN notes = (Len(SampleNotes) + 1)..(2 * Len(SampleNotes))

\* C8: create returns the row it inserted: never None, with the new id and
\* the supplied values, in every interleaving with other callers' updates
\* and deletes.
C8_CreateReturnsTheInsertedRow ==
    (ev.op \in {"StudentDB.create", "NoteDB.create"} /\ ev.done) =>
        /\ Len(ev.rows) = 1
        /\ ev.rows[1] = [id |-> ev.id] @@ ev.data[1]

\* C9: toggle_pin reads and then writes in separate steps, so two concurrent
\* calls on one note can read the same value; when they have, both write the
\* same new value and the note ends flipped once, not back at its old value.
C9_RacingTogglesFlipOnce ==
    \A p, q \in Procs :
        ( /\ p # q
          /\ pc[p] = "toggle_read" /\ pc[q] = "toggle_read"
          /\ loc[p].id = loc[q].id
          /\ loc[p].old = loc[q].old
          /\ loc[p].id \in DOMAIN notes )
        => /\ loc[p].n = loc[q].n
           /\ notes[loc[p].id].is_pinned = NewPin(loc[p].old)
           /\ notes[loc[p].id].is_pinned # loc[p].old

\* both callers have read the same is_pinned of the same note and both have
\* written
C9_Witness ==
    /\ pc["w1"] = "toggle_read" /\ pc["w2"] = "toggle_read"
    /\ loc["w1"].id = loc["w2"].id
    /\ loc["w1"].old = loc["w2"].old
    /\ loc["w1"].id \in DOMAIN notes

\* C10: a caller that is not inside an operation holds no open connection,
\* whether the operation returned or raised at connect or at a statement;
\* inside create and update it holds exactly the outer one.
C10_NoConnectionLeftOpen ==
    \A p \in Procs :
        /\ pc[p] \in {"boot", "idle", "toggle_write", "toggle_read"} => conns[p] = 0
        /\ conns[p] \in {0, 1}

\* the nested read-back of create or update has raised at its statement and
\* the caller holds no connection
C10_Witness ==
    /\ ev.op = "raised" /\ ev.stmt = "nested with" /\ ev.err = "statement"
    /\ \A p \in Procs : conns[p] = 0
====
